---- MODULE Spec2Model ----
(***************************************************************************)
(* pomobar-rs: the typed Pomodoro timer (src/models.rs) and the daemon     *)
(* that drives it (src/bin/server.rs): a timer task, a socket listener     *)
(* task and the main event loop, joined by one bounded mpsc channel.       *)
(*                                                                         *)
(* Time is counted in minutes.  The wall clock `now` is read by the        *)
(* transitions through Local::now(); it moves forward in steps of          *)
(* ClockStep minutes between the steps of the tasks.                       *)
(***************************************************************************)
EXTENDS Integers, Sequences, FiniteSets

\* ------------------------------------------------------------ bounds

\* The clock is followed up to MaxTime minutes after daemon start.
MaxTime == 130

\* The clock advances ClockStep minutes at a time.
ClockStep == 5

\* At most MaxQueue events are left unprocessed in the channel at once.
MaxQueue == 2

\* At most MaxBacklog connections wait to be accepted at once.
MaxBacklog == 2

\* ------------------------------------------------- program constants

\* mpsc::channel::<ServerEvent>(32)
QueueCap == 32

\* Duration::minutes(m)
Minutes(m) == m

\* impl TimedState for Work / ShortBreak / LongBreak
WorkDuration == Minutes(25)

ShortBreakDuration == Minutes(5)

LongBreakDuration == Minutes(15)

\* Duration::zero()
Zero == Minutes(0)

VARIABLES
    now,        \* Local::now().naive_local(), in minutes since daemon start
    pomodoro,   \* main's `pomodoro`: the PomobarDispatcher value
    alive,      \* FALSE once a panic in main has ended the process
    rx,         \* the events buffered in the mpsc channel, oldest first
    lpc,        \* where the socket listener task stands
    buf,        \* the bytes the listener read from the accepted socket
    resp,       \* the oneshot channel of the status request in flight
    socket,     \* what the listener wrote back on the accepted socket
    last,       \* history: what the event loop did with the last event
    workFinishes,   \* history: Work finishes since start or the last Reset
    beforePause,    \* history: what the accessors returned when pause() was called
    backlog     \* connections made to the UnixListener and not yet accepted

vars == <<now, pomodoro, alive, rx, lpc, buf, resp, socket, last,
          workFinishes, beforePause, backlog>>

\* ------------------------------------------------------- timer states

\* Pomobar::<Idle>::new()
new == [tag |-> "Idle"]

\* A value no duration takes.
None == 0 - 1

\* An empty oneshot channel, and a socket nothing was written to.
Empty == [empty |-> TRUE]

\* Pomobar<Idle>::start, with Local::now() = t
start(self, t) == [tag |-> "Work", started_at |-> t, cycles |-> 0]

\* Pomobar<Work>::pause storing the remaining time without the clamp at zero.
pause_unclamped(self, t) ==
    LET elapsed == t - self.started_at
        remaining == WorkDuration - elapsed
    IN  [tag |-> "Paused", remaining |-> remaining, cycles |-> self.cycles]

\* Pomobar<Work>::pause
pause(self, t) ==
    LET elapsed == t - self.started_at
        remaining == WorkDuration - elapsed
    IN  [tag |-> "Paused",
         remaining |-> IF remaining > Zero THEN remaining ELSE Zero,
         cycles |-> self.cycles]

\* u32::is_multiple_of
is_multiple_of(n, k) == n % k = 0

\* Pomobar<Work>::finish testing the old count instead of the new one.
work_finish_old_count(self, t) ==
    LET new_cycles == self.cycles + 1
    IN  IF self.cycles % 4 = 0
        THEN [tag |-> "LongBreak", started_at |-> t, cycles |-> new_cycles]
        ELSE [tag |-> "ShortBreak", started_at |-> t, cycles |-> new_cycles]

\* Pomobar<Work>::finish going to the break without counting the session.
work_finish_no_count(self, t) ==
    IF is_multiple_of(self.cycles, 4)
    THEN [tag |-> "LongBreak", started_at |-> t, cycles |-> self.cycles]
    ELSE [tag |-> "ShortBreak", started_at |-> t, cycles |-> self.cycles]

\* Pomobar<Work>::finish.  cycles is a u32; the model's runs stay far below
\* 2^32 completed sessions, so the sum never overflows here.
work_finish(self, t) ==
    LET new_cycles == self.cycles + 1
    IN  IF is_multiple_of(new_cycles, 4)
        THEN [tag |-> "LongBreak", started_at |-> t, cycles |-> new_cycles]
        ELSE [tag |-> "ShortBreak", started_at |-> t, cycles |-> new_cycles]

\* Pomobar<Paused>::resume restarting the session at the time of the resume.
resume_restarts(self, t) ==
    [tag |-> "Work", started_at |-> t, cycles |-> self.cycles]

\* Pomobar<Paused>::resume giving a session paused with no time left a new
\* start.
resume_zero_restarts(self, t) ==
    LET new_started_at == IF self.remaining = Zero
                          THEN t
                          ELSE t - (Minutes(25) - self.remaining)
    IN  [tag |-> "Work", started_at |-> new_started_at, cycles |-> self.cycles]

\* Pomobar<Paused>::resume
resume(self, t) ==
    LET new_started_at == t - (Minutes(25) - self.remaining)
    IN  [tag |-> "Work", started_at |-> new_started_at, cycles |-> self.cycles]

\* Pomobar<ShortBreak>::finish counting the break as a completed session.
short_break_finish_counts(self, t) ==
    [tag |-> "Work", started_at |-> t, cycles |-> self.cycles + 1]

\* Pomobar<ShortBreak>::finish
short_break_finish(self, t) ==
    [tag |-> "Work", started_at |-> t, cycles |-> self.cycles]

\* Pomobar<LongBreak>::finish
long_break_finish(self, t) ==
    [tag |-> "Work", started_at |-> t, cycles |-> self.cycles]

\* TimedState::duration of the three timed variants
duration(self) ==
    CASE self.tag = "Work" -> WorkDuration
      [] self.tag = "ShortBreak" -> ShortBreakDuration
      [] self.tag = "LongBreak" -> LongBreakDuration

\* get_remaining_time without its clamp.
clamp_missing(remaining) == remaining

\* The clamp of PomobarDispatcher::get_remaining_time's timed arms
clamp(remaining) == IF remaining < Zero THEN Zero ELSE remaining

\* PomobarDispatcher::get_remaining_time, with Local::now() = t
get_remaining_time(self, t) ==
    CASE self.tag \in {"Work", "ShortBreak", "LongBreak"} ->
            LET elapsed == t - self.started_at
                remaining == duration(self) - elapsed
            IN  clamp(remaining)
      [] self.tag = "Paused" -> self.remaining
      [] self.tag = "Idle" -> Minutes(25)

\* PomobarDispatcher::get_state_name
get_state_name(self) ==
    CASE self.tag = "Idle" -> "idle"
      [] self.tag = "Work" -> "work"
      [] self.tag = "Paused" -> "paused"
      [] self.tag = "ShortBreak" -> "short_break"
      [] self.tag = "LongBreak" -> "long_break"

\* PomobarDispatcher::get_cycles
get_cycles(self) == IF self.tag = "Idle" THEN 0 ELSE self.cycles

\* serde_json::to_string(&pomodoro) leaving the cycles out of a paused reply.
to_string_paused_bare(self) ==
    CASE self.tag = "Idle" -> [status |-> "Idle", state |-> [null |-> TRUE]]
      [] self.tag = "Paused" ->
            [status |-> "Paused", state |-> [remaining |-> self.remaining]]
      [] OTHER ->
            [status |-> self.tag,
             state |-> [started_at |-> self.started_at, cycles |-> self.cycles]]

\* serde_json::to_string(&pomodoro): #[serde(tag = "status")] puts the variant's
\* name under "status" beside the fields of Pomobar<S>, which are `state`.
to_string(self) ==
    CASE self.tag = "Idle" -> [status |-> "Idle", state |-> [null |-> TRUE]]
      [] self.tag = "Paused" ->
            [status |-> "Paused",
             state |-> [remaining |-> self.remaining, cycles |-> self.cycles]]
      [] OTHER ->
            [status |-> self.tag,
             state |-> [started_at |-> self.started_at, cycles |-> self.cycles]]

\* ----------------------------------------------------- the event loop

\* The Toggle arm letting a toggle end a break.
toggle_ends_break(self, t) ==
    CASE self.tag = "Idle" -> start(self, t)
      [] self.tag = "Work" -> pause(self, t)
      [] self.tag = "Paused" -> resume(self, t)
      [] self.tag = "ShortBreak" -> short_break_finish(self, t)
      [] self.tag = "LongBreak" -> long_break_finish(self, t)

\* The Toggle arm's match
toggle(self, t) ==
    CASE self.tag = "Idle" -> start(self, t)
      [] self.tag = "Work" -> pause(self, t)
      [] self.tag = "Paused" -> resume(self, t)
      [] self.tag = "ShortBreak" -> self
      [] self.tag = "LongBreak" -> self

\* The Reset arm going back to Idle only from a session that is not running.
reset_keeps_running(self) == IF self.tag = "Work" THEN self ELSE new

\* The Reset arm's assignment
reset(self) == new

\* The Tick arm's test taking any remaining time of a break for zero.
tick_due_early(self, t) ==
    \/ get_remaining_time(self, t) = Minutes(0)
    \/ self.tag \in {"ShortBreak", "LongBreak"}

\* The Tick arm's test
tick_due(self, t) == get_remaining_time(self, t) = Minutes(0)

\* The Tick arm's match finishing a paused session that has no time left.
tick_finishes_paused(self, t) ==
    IF tick_due(self, t)
    THEN CASE self.tag = "Work" -> work_finish(self, t)
           [] self.tag = "ShortBreak" -> short_break_finish(self, t)
           [] self.tag = "LongBreak" -> long_break_finish(self, t)
           [] self.tag = "Paused" -> work_finish(self, t)
           [] OTHER -> self
    ELSE self

\* The Tick arm's match
tick(self, t) ==
    IF tick_due(self, t)
    THEN CASE self.tag = "Work" -> work_finish(self, t)
           [] self.tag = "ShortBreak" -> short_break_finish(self, t)
           [] self.tag = "LongBreak" -> long_break_finish(self, t)
           [] OTHER -> self
    ELSE self

\* Whether the arm for `event` calls send_notification in state `self`
notifies(event, self, t) ==
    CASE event = "Toggle" -> self.tag \in {"Idle", "Work", "Paused"}
      [] event = "Reset" -> TRUE
      [] event = "Tick" ->
            tick_due(self, t) /\ self.tag \in {"Work", "ShortBreak", "LongBreak"}
      [] OTHER -> FALSE

\* send_notification: Notification::show() returns Ok or Err, and the Err is
\* unwrapped.  The outcomes of one call.
send_notification(needed) == IF needed THEN {"Ok", "Err"} ELSE {"Ok"}

\* What the debug! lines of the loop tell: the transition the arm for
\* `event` makes from state `self`.
transition(event, self, t) ==
    CASE event = "Toggle" /\ self.tag = "Idle" -> "start"
      [] event = "Toggle" /\ self.tag = "Work" -> "pause"
      [] event = "Toggle" /\ self.tag = "Paused" -> "resume"
      [] event = "Toggle" -> "toggle_ignored"
      [] event = "Reset" -> "reset"
      [] event = "Status" -> "status"
      [] event = "Tick" /\ tick_due(self, t) /\ self.tag = "Work" -> "work_finish"
      [] event = "Tick" /\ tick_due(self, t)
            /\ self.tag \in {"ShortBreak", "LongBreak"} -> "break_finish"
      [] OTHER -> "tick_ignored"

\* History of the loop: the transition just made and the state it left.
Record(event) ==
    last' = [what |-> transition(event, pomodoro, now),
             from |-> pomodoro.tag,
             cycles |-> get_cycles(pomodoro)]

\* No pause on record.
NoPause == [remaining |-> None, cycles |-> None, waited |-> FALSE]

\* History of the loop: what get_remaining_time() and get_cycles() returned when
\* pause() was called, and whether the clock has moved since; kept while the
\* session is paused, through the step that resumes it and through a finish
\* that follows the resume at once.
RecordPause(event) ==
    beforePause' =
        CASE transition(event, pomodoro, now) = "pause" ->
                [remaining |-> get_remaining_time(pomodoro, now),
                 cycles |-> get_cycles(pomodoro),
                 waited |-> FALSE]
          [] transition(event, pomodoro, now) = "resume" -> beforePause
          [] transition(event, pomodoro, now) = "work_finish"
                /\ last.what = "resume" -> beforePause
          [] pomodoro'.tag = "Paused" -> beforePause
          [] OTHER -> NoPause

\* History of the loop: the Work sessions finished since the daemon started or
\* since the last Reset, whichever is later.
RecordWorkFinish(event) ==
    workFinishes' =
        CASE event = "Reset" -> 0
          [] pomodoro.tag = "Work"
                /\ pomodoro'.tag \in {"ShortBreak", "LongBreak"} -> workFinishes + 1
          [] OTHER -> workFinishes

\* A panic in main ends the process: its tasks stop and its memory is gone.
Panic ==
    /\ alive' = FALSE
    /\ pomodoro' = new
    /\ rx' = <<>>
    /\ lpc' = "exited"
    /\ buf' = ""
    /\ resp' = Empty
    /\ socket' = Empty
    /\ last' = [what |-> "panic", from |-> pomodoro.tag,
                cycles |-> get_cycles(pomodoro)]
    /\ workFinishes' = 0
    /\ beforePause' = NoPause
    /\ backlog' = 0
    /\ UNCHANGED now

\* ServerEvent::Toggle
HandleToggle ==
    /\ alive
    /\ rx # <<>>
    /\ Head(rx) = "Toggle"
    /\ \E shown \in send_notification(notifies("Toggle", pomodoro, now)) :
        IF shown = "Err"
        THEN Panic
        ELSE /\ pomodoro' = toggle(pomodoro, now)
             /\ rx' = Tail(rx)
             /\ Record("Toggle")
             /\ RecordPause("Toggle")
             /\ RecordWorkFinish("Toggle")
             /\ UNCHANGED <<now, alive, lpc, buf, resp, socket, backlog>>

\* ServerEvent::Reset
HandleReset ==
    /\ alive
    /\ rx # <<>>
    /\ Head(rx) = "Reset"
    /\ \E shown \in send_notification(notifies("Reset", pomodoro, now)) :
        IF shown = "Err"
        THEN Panic
        ELSE /\ pomodoro' = reset(pomodoro)
             /\ rx' = Tail(rx)
             /\ Record("Reset")
             /\ RecordPause("Reset")
             /\ RecordWorkFinish("Reset")
             /\ UNCHANGED <<now, alive, lpc, buf, resp, socket, backlog>>

\* The loop answering a Status event ahead of the events sent before it.
HandleStatusOutOfTurn ==
    /\ alive
    /\ rx # <<>>
    /\ \E i \in 1..Len(rx) :
        /\ rx[i] = "Status"
        /\ \A j \in 1..(i - 1) : rx[j] # "Status"
        /\ rx' = SubSeq(rx, 1, i - 1) \o SubSeq(rx, i + 1, Len(rx))
    /\ IF lpc = "await"
       THEN /\ resp' = to_string(pomodoro)
            /\ pomodoro' = pomodoro
            /\ last' = [what |-> "status", from |-> pomodoro.tag,
                        cycles |-> get_cycles(pomodoro)]
            /\ beforePause' = IF pomodoro.tag = "Paused"
                              THEN beforePause ELSE NoPause
            /\ UNCHANGED <<now, alive, lpc, buf, socket, workFinishes, backlog>>
       ELSE Panic

\* ServerEvent::Status(resp_tx): resp_tx.send fails, and is unwrapped, when the
\* receiver is gone; the listener holds it for as long as it awaits the reply.
HandleStatus ==
    /\ alive
    /\ rx # <<>>
    /\ Head(rx) = "Status"
    /\ IF lpc = "await"
       THEN /\ resp' = to_string(pomodoro)
            /\ rx' = Tail(rx)
            /\ pomodoro' = pomodoro
            /\ Record("Status")
            /\ RecordPause("Status")
            /\ RecordWorkFinish("Status")
            /\ UNCHANGED <<now, alive, lpc, buf, socket, backlog>>
       ELSE Panic

\* ServerEvent::Tick
HandleTick ==
    /\ alive
    /\ rx # <<>>
    /\ Head(rx) = "Tick"
    /\ \E shown \in send_notification(notifies("Tick", pomodoro, now)) :
        IF shown = "Err"
        THEN Panic
        ELSE /\ pomodoro' = tick(pomodoro, now)
             /\ rx' = Tail(rx)
             /\ Record("Tick")
             /\ RecordPause("Tick")
             /\ RecordWorkFinish("Tick")
             /\ UNCHANGED <<now, alive, lpc, buf, resp, socket, backlog>>

\* ------------------------------------------------------ the producers

\* tx.send(event).await: completes once the channel has room.
CanSend == Len(rx) < QueueCap /\ Len(rx) < MaxQueue

\* The timer task: send a Tick, sleep a second, again.
TimerTask ==
    /\ alive
    /\ CanSend
    /\ rx' = Append(rx, "Tick")
    /\ UNCHANGED <<now, pomodoro, alive, lpc, buf, resp, socket, last,
                   workFinishes, beforePause, backlog>>

\* The wall clock moves on.
Advance ==
    /\ alive
    /\ now + ClockStep <= MaxTime
    /\ now' = now + ClockStep
    /\ beforePause' = IF pomodoro.tag = "Paused"
                      THEN [beforePause EXCEPT !.waited = TRUE]
                      ELSE beforePause
    /\ UNCHANGED <<pomodoro, alive, rx, lpc, buf, resp, socket, last,
                   workFinishes, backlog>>

\* What a client may have written when the listener reads: the three tokens of
\* the client, some other text, nothing at all, and bytes that are not UTF-8.
InvalidBytes == "\\xff"

Inputs == {"toggle", "reset", "status", "bogus", "", InvalidBytes}

\* socket.read's count for the inputs above
ByteLen(bytes) ==
    CASE bytes = "" -> 0
      [] bytes = "toggle" -> 6
      [] bytes = "reset" -> 5
      [] bytes = "status" -> 6
      [] bytes = "bogus" -> 5
      [] bytes = InvalidBytes -> 1

\* String::from_utf8(..).is_ok()
from_utf8_ok(bytes) == bytes # InvalidBytes

\* The listener's match taking only the token `status` for a status query.
translate_strict(command) ==
    CASE command = "toggle" -> "Toggle"
      [] command = "reset" -> "Reset"
      [] command = "status" -> "Status"
      [] OTHER -> "Toggle"

\* The listener's match on the command
translate(command) ==
    CASE command = "toggle" -> "Toggle"
      [] command = "reset" -> "Reset"
      [] OTHER -> "Status"

\* A panic in the listener task ends that task only: its socket and its
\* oneshot receiver are dropped, and so is the UnixListener, with the
\* connections waiting on it; the other tasks run on.
ListenerPanic ==
    /\ lpc' = "panicked"
    /\ buf' = ""
    /\ socket' = Empty
    /\ resp' = Empty
    /\ backlog' = 0
    /\ UNCHANGED <<now, pomodoro, alive, rx, last, workFinishes,
                   beforePause>>

\* listener.accept().await.unwrap() and socket.read(&mut buf).await.unwrap()
ListenerRead ==
    /\ alive
    /\ lpc = "accept"
    /\ \/ \E bytes \in Inputs :
            /\ buf' = bytes
            /\ lpc' = "dispatch"
            /\ socket' = Empty
            /\ UNCHANGED <<now, pomodoro, alive, rx, resp, last, workFinishes,
                           beforePause, backlog>>
       \/ ListenerPanic

\* if n > 0 { match command.as_str() { .. } }, up to the event's send
ListenerDispatch ==
    /\ alive
    /\ lpc = "dispatch"
    /\ IF ByteLen(buf) > 0
       THEN IF from_utf8_ok(buf)
            THEN /\ CanSend
                 /\ rx' = Append(rx, translate(buf))
                 /\ IF translate(buf) = "Status"
                    THEN /\ lpc' = "await"
                         /\ resp' = Empty
                         /\ UNCHANGED buf
                    ELSE /\ lpc' = "accept"
                         /\ buf' = ""
                         /\ UNCHANGED resp
                 /\ UNCHANGED <<now, pomodoro, alive, socket, last,
                                workFinishes, beforePause, backlog>>
            ELSE ListenerPanic
       ELSE /\ lpc' = "accept"
            /\ buf' = ""
            /\ UNCHANGED <<now, pomodoro, alive, rx, resp, socket, last,
                           workFinishes, beforePause, backlog>>

\* resp_rx.await.unwrap() and socket.write_all(..).await.unwrap()
ListenerReply ==
    /\ alive
    /\ lpc = "await"
    /\ resp # Empty
    /\ \/ /\ socket' = resp
          /\ lpc' = "close"
          /\ resp' = Empty
          /\ UNCHANGED <<now, pomodoro, alive, rx, buf, last, workFinishes,
                         beforePause, backlog>>
       \/ ListenerPanic

\* The end of the loop's body: the socket is dropped.
ListenerClose ==
    /\ alive
    /\ lpc = "close"
    /\ lpc' = "accept"
    /\ buf' = ""
    /\ socket' = Empty
    /\ UNCHANGED <<now, pomodoro, alive, rx, resp, last, workFinishes,
                   beforePause, backlog>>

\* ------------------------------------------------------ specification

Init ==
    /\ now = 0
    /\ pomodoro = new
    /\ alive = TRUE
    /\ rx = <<>>
    /\ lpc = "accept"
    /\ buf = ""
    /\ resp = Empty
    /\ socket = Empty
    /\ last = [what |-> "init", from |-> "Idle", cycles |-> 0]
    /\ workFinishes = 0
    /\ beforePause = NoPause
    /\ backlog = 0

Next ==
    \/ HandleToggle
    \/ HandleReset
    \/ HandleStatus
    \/ HandleTick
    \/ TimerTask
    \/ Advance
    \/ ListenerRead
    \/ ListenerDispatch
    \/ ListenerReply
    \/ ListenerClose

Spec == Init /\ [][Next]_vars

\* ------------------------------------- the listener, connection by connection

\* A client's UnixStream::connect(path): the connection waits on the listener
\* until the listener task accepts it.
ClientConnect ==
    /\ alive
    /\ lpc \notin {"panicked", "exited"}
    /\ backlog < MaxBacklog
    /\ backlog' = backlog + 1
    /\ UNCHANGED <<now, pomodoro, alive, rx, lpc, buf, resp, socket, last,
                   workFinishes, beforePause>>

\* listener.accept().await.unwrap()
ListenerAccept ==
    /\ alive
    /\ lpc = "accept"
    /\ backlog > 0
    /\ \/ /\ lpc' = "read"
          /\ backlog' = backlog - 1
          /\ socket' = Empty
          /\ UNCHANGED <<now, pomodoro, alive, rx, buf, resp, last,
                         workFinishes, beforePause>>
       \/ ListenerPanic

\* socket.read(&mut buf).await.unwrap(): returns when the accepted client has
\* written its command or closed its end, not before.
ListenerReceive ==
    /\ alive
    /\ lpc = "read"
    /\ \/ \E bytes \in Inputs :
            /\ buf' = bytes
            /\ lpc' = "dispatch"
            /\ UNCHANGED <<now, pomodoro, alive, rx, resp, socket, last,
                           workFinishes, beforePause, backlog>>
       \/ ListenerPanic

\* The daemon with its clients connecting one by one, the clock standing still.
NextConn ==
    \/ HandleToggle
    \/ HandleReset
    \/ HandleStatus
    \/ HandleTick
    \/ TimerTask
    \/ ClientConnect
    \/ ListenerAccept
    \/ ListenerReceive
    \/ ListenerDispatch
    \/ ListenerReply
    \/ ListenerClose

SpecConn == Init /\ [][NextConn]_vars

\* ------------------------------------------- the timer left to itself

\* The daemon after a first `toggle` at start: a Work session is running and no
\* client connects any more.
InitStarted ==
    /\ now = 0
    /\ pomodoro = start(new, 0)
    /\ alive = TRUE
    /\ rx = <<>>
    /\ lpc = "accept"
    /\ buf = ""
    /\ resp = Empty
    /\ socket = Empty
    /\ last = [what |-> "start", from |-> "Idle", cycles |-> 0]
    /\ workFinishes = 0
    /\ beforePause = NoPause
    /\ backlog = 0

NextTimed ==
    \/ TimerTask
    \/ HandleTick
    \/ Advance

\* The timer task sends again after each sleep, the event loop takes what the
\* channel holds, and time passes: tokio runs every task that is ready.
FairSpec ==
    /\ InitStarted
    /\ [][NextTimed]_vars
    /\ WF_vars(TimerTask)
    /\ WF_vars(HandleTick)
    /\ WF_vars(Advance)

\* ------------------------------------------------------------- claims

Breaks == {"ShortBreak", "LongBreak"}

\* The event loop takes `event` off the channel and gets through its arm.
Processed(event) ==
    /\ alive
    /\ rx # <<>>
    /\ Head(rx) = event
    /\ rx' = Tail(rx)
    /\ alive'

\* C1: counting the Work finishes since the daemon started or since the last
\* Reset, whatever toggles, break finishes, status queries and ticks lie in
\* between, the n-th Work finish goes to LongBreak iff n is a multiple of 4 and
\* to ShortBreak otherwise.
C1_NthWorkFinish ==
    [][(Processed("Tick") /\ pomodoro.tag = "Work" /\ pomodoro'.tag # "Work")
        => /\ workFinishes' = workFinishes + 1
           /\ pomodoro'.tag = "LongBreak" <=> workFinishes' % 4 = 0
           /\ pomodoro'.tag = "ShortBreak" <=> workFinishes' % 4 # 0
           /\ (workFinishes' \in 1..3 => pomodoro'.tag = "ShortBreak")
           /\ (workFinishes' = 4 => pomodoro'.tag = "LongBreak")]_vars

\* The 4th Work finish since daemon start has just gone to LongBreak.
C1_Witness ==
    /\ last.what = "work_finish"
    /\ workFinishes = 4
    /\ pomodoro.tag = "LongBreak"

\* C2: a resume() that follows a pause(), after any time spent paused, yields a
\* Work state whose remaining time right after the resume is the remaining time
\* the session had right before the pause, with the same cycles.
C2_PauseResumeKeepsRemaining ==
    [][(Processed("Toggle") /\ pomodoro.tag = "Paused")
        => /\ pomodoro'.tag = "Work"
           /\ get_remaining_time(pomodoro', now') = beforePause.remaining
           /\ get_cycles(pomodoro') = beforePause.cycles]_vars

\* A session paused with 15 of its 25 minutes left has been resumed after the
\* clock moved on while it was paused.
C2_Witness ==
    /\ last.what = "resume"
    /\ beforePause.waited
    /\ beforePause.remaining = WorkDuration - 2 * ClockStep
    /\ pomodoro.tag = "Work"

\* C3: a Reset processed in any of the five states, with any cycles, leaves
\* Idle with cycle_count() = 0, and the Toggle that follows starts a Work
\* session with cycles = 0.
C3_ResetToIdle ==
    [][/\ Processed("Reset")
            => pomodoro'.tag = "Idle" /\ get_cycles(pomodoro') = 0
       /\ (Processed("Toggle") /\ pomodoro.tag = "Idle")
            => /\ pomodoro'.tag = "Work"
               /\ pomodoro'.cycles = 0
               /\ pomodoro'.started_at = now]_vars

\* A Reset has been processed in a LongBreak that carried 4 cycles.
C3_Witness ==
    /\ last.what = "reset"
    /\ last.from = "LongBreak"
    /\ last.cycles = 4
    /\ pomodoro.tag = "Idle"

\* C4: a Toggle processed in ShortBreak or LongBreak leaves the state as it
\* was: same variant, same started_at, same cycles.
C4_ToggleOnBreakIsNoOp ==
    [][(Processed("Toggle") /\ pomodoro.tag \in Breaks)
        => pomodoro' = pomodoro]_vars

\* A Toggle has been processed, and ignored, in a break that is under way.
C4_Witness ==
    /\ last.what = "toggle_ignored"
    /\ pomodoro.tag = "ShortBreak"
    /\ now > pomodoro.started_at

\* C5: a Tick processed in Work with the remaining time at or below zero, by
\* any amount, makes exactly one finish: to a break that starts now with
\* cycles + 1 and its full duration left; a second Tick processed right after,
\* the clock not having moved, leaves that break as it is.
C5_OneFinishPerDeadline ==
    [][/\ (/\ Processed("Tick")
           /\ pomodoro.tag = "Work"
           /\ WorkDuration - (now - pomodoro.started_at) <= 0)
            => /\ pomodoro'.tag \in Breaks
               /\ pomodoro'.cycles = pomodoro.cycles + 1
               /\ get_remaining_time(pomodoro', now') = duration(pomodoro')
               /\ get_remaining_time(pomodoro', now') > 0
       /\ (/\ Processed("Tick")
           /\ last.what = "work_finish"
           /\ pomodoro.tag \in Breaks
           /\ pomodoro.started_at = now)
            => pomodoro' = pomodoro]_vars

\* A Work session was finished past its deadline and a further Tick has been
\* processed in the break before the clock moved.
C5_Witness ==
    /\ last.what = "tick_ignored"
    /\ pomodoro.tag \in Breaks
    /\ pomodoro.started_at = now
    /\ pomodoro.cycles = 1

\* C6: in every reachable state remaining_time() >= 0: the live value of Work,
\* ShortBreak and LongBreak however far the clock is past the deadline, and
\* the value stored in Paused.
C6_RemainingNonNegative ==
    /\ get_remaining_time(pomodoro, now) >= 0
    /\ pomodoro.tag = "Paused" => pomodoro.remaining >= 0

\* A Work session is two clock steps past its deadline and not yet finished.
C6_Witness ==
    /\ alive
    /\ pomodoro.tag = "Work"
    /\ now - pomodoro.started_at >= WorkDuration + 2 * ClockStep

\* C7: in one step of the event loop cycle_count() stays, grows by exactly 1 or
\* drops to 0; it grows only when a Tick finishes Work into a break, and it
\* drops only when a Reset is processed.
C7_CyclesStep ==
    [][alive' =>
        LET c == get_cycles(pomodoro)
            d == get_cycles(pomodoro')
        IN  /\ d = c \/ d = c + 1 \/ d = 0
            /\ d = c + 1 => /\ Processed("Tick")
                            /\ pomodoro.tag = "Work"
                            /\ pomodoro'.tag \in Breaks
            /\ d < c => Processed("Reset")
            /\ (Processed("Toggle") \/ Processed("Status")) => d = c
            /\ pomodoro.tag \in Breaks /\ pomodoro'.tag = "Work" => d = c]_vars

\* A break has been finished into Work with the 2 cycles it carried.
C7_Witness ==
    /\ last.what = "break_finish"
    /\ last.cycles = 2
    /\ pomodoro.tag = "Work"
    /\ pomodoro.cycles = 2

\* The listener gets through its handling of the bytes it read.
Dispatched ==
    /\ alive
    /\ lpc = "dispatch"
    /\ lpc' # "dispatch"
    /\ alive'

StatusQueued(q) == \E i \in 1..Len(q) : q[i] = "Status"

\* C9: a Status event placed on the channel is answered by the event loop,
\* whatever Toggle, Reset and Tick events precede it; the loop never exits and
\* never drops a Status event without a reply: a Status event leaves the
\* channel only with its reply sent.
C9_StatusNeverDropped ==
    [][StatusQueued(rx) => StatusQueued(rx') \/ resp' # Empty]_vars

\* What the arm for `event` makes of state `self` when its notification shows.
successor(event, self, t) ==
    CASE event = "Toggle" -> toggle(self, t)
      [] event = "Reset" -> reset(self)
      [] event = "Tick" -> tick(self, t)
      [] OTHER -> self

\* C10: whether or not the notification of a transition that notifies can be
\* delivered, the transition completes with the same successor state and the
\* event loop keeps running.
C10_NotificationFailureTolerated ==
    [][(/\ alive
        /\ rx # <<>>
        /\ notifies(Head(rx), pomodoro, now)
        /\ rx' = Tail(rx) \/ ~alive')
        => /\ alive'
           /\ pomodoro' = successor(Head(rx), pomodoro, now)]_vars

\* The places of the listener's loop.
Serving == {"accept", "read", "dispatch", "await", "close"}

\* C11: a read or write error, or undecodable input, on one connection stays
\* with that connection: no step of the listener changes the timer state, and
\* after every one of its steps the listener is still in its loop, so that the
\* connections accepted afterwards are read, translated and answered.
C11_ConnectionErrorsIsolated ==
    [][(alive /\ alive' /\ lpc' # lpc)
        => pomodoro' = pomodoro /\ lpc' \in Serving]_vars

\* C14, as stated: the reply's `status` equals state_name() of the current
\* state, and the reply carries started_at and cycles for work, short_break and
\* long_break, remaining and cycles for paused, nothing more for idle.
C14_StatusIsStateName ==
    [][Processed("Status")
        => /\ resp'.status = get_state_name(pomodoro)
           /\ pomodoro.tag \in {"Work", "ShortBreak", "LongBreak"}
                => /\ DOMAIN resp' = {"status", "started_at", "cycles"}
                   /\ resp'.started_at = pomodoro.started_at
                   /\ resp'.cycles = pomodoro.cycles
           /\ pomodoro.tag = "Paused"
                => /\ DOMAIN resp' = {"status", "remaining", "cycles"}
                   /\ resp'.remaining = pomodoro.remaining
                   /\ resp'.cycles = pomodoro.cycles
           /\ pomodoro.tag = "Idle" => DOMAIN resp' = {"status"}]_vars

\* state_name() of the variant a reply's `status` names.
StateNameOf(status) ==
    CASE status = "Idle" -> "idle"
      [] status = "Work" -> "work"
      [] status = "Paused" -> "paused"
      [] status = "ShortBreak" -> "short_break"
      [] status = "LongBreak" -> "long_break"
      [] OTHER -> "?"

\* C14, amended: the reply's `status` is the name of the current variant (Idle,
\* Work, Paused, ShortBreak, LongBreak), which names the state state_name()
\* names; beside it the reply has one member, `state`, which holds started_at
\* and cycles for Work, ShortBreak and LongBreak, remaining and cycles for
\* Paused, and null for Idle.
C14_StatusIsVariantName ==
    [][Processed("Status")
        => /\ DOMAIN resp' = {"status", "state"}
           /\ resp'.status = pomodoro.tag
           /\ StateNameOf(resp'.status) = get_state_name(pomodoro)
           /\ pomodoro.tag \in {"Work", "ShortBreak", "LongBreak"}
                => /\ DOMAIN resp'.state = {"started_at", "cycles"}
                   /\ resp'.state.started_at = pomodoro.started_at
                   /\ resp'.state.cycles = pomodoro.cycles
           /\ pomodoro.tag = "Paused"
                => /\ DOMAIN resp'.state = {"remaining", "cycles"}
                   /\ resp'.state.remaining = pomodoro.remaining
                   /\ resp'.state.cycles = pomodoro.cycles
           /\ pomodoro.tag = "Idle" => resp'.state = [null |-> TRUE]]_vars

\* A status query has been answered for a session paused with 15 minutes left
\* after one completed cycle.
C14_Witness ==
    /\ lpc = "await"
    /\ resp # Empty
    /\ resp.status = "Paused"
    /\ resp.state.remaining = WorkDuration - 2 * ClockStep
    /\ resp.state.cycles = 1

\* max(0, d)
Max0(d) == IF d > 0 THEN d ELSE 0

\* C15: a Toggle takes Idle to Work with started_at = now and cycles = 0, Work
\* to Paused with remaining = max(0, 25 min - (now - started_at)) and the same
\* cycles, Paused to Work with started_at = now - (25 min - remaining) and the
\* same cycles; it never makes Idle, ShortBreak or LongBreak out of another
\* variant.
C15_ToggleMap ==
    [][Processed("Toggle")
        => /\ pomodoro.tag = "Idle"
                => pomodoro' = [tag |-> "Work", started_at |-> now, cycles |-> 0]
           /\ pomodoro.tag = "Work"
                => pomodoro' = [tag |-> "Paused",
                                remaining |-> Max0(25 - (now - pomodoro.started_at)),
                                cycles |-> pomodoro.cycles]
           /\ pomodoro.tag = "Paused"
                => pomodoro' = [tag |-> "Work",
                                started_at |-> now - (25 - pomodoro.remaining),
                                cycles |-> pomodoro.cycles]
           /\ pomodoro'.tag \in {"Idle", "ShortBreak", "LongBreak"}
                => pomodoro'.tag = pomodoro.tag]_vars

\* A Work session with one completed cycle has been paused past its deadline:
\* the stored remaining time is the clamped 0.
C15_Witness ==
    /\ last.what = "pause"
    /\ last.cycles = 1
    /\ pomodoro.tag = "Paused"
    /\ pomodoro.remaining = 0
    /\ pomodoro.cycles = 1

\* C16: a Tick leaves the state as it was unless the state is Work, ShortBreak
\* or LongBreak with remaining_time() = 0: Idle ignores it, Paused ignores it
\* also with a stored remaining time of 0, and a timed state with time left is
\* not finished early.
C16_TickOnlyFinishesDueTimedStates ==
    [][Processed("Tick")
        => /\ pomodoro.tag \in {"Idle", "Paused"} => pomodoro' = pomodoro
           /\ (/\ pomodoro.tag \in {"Work", "ShortBreak", "LongBreak"}
               /\ duration(pomodoro) - (now - pomodoro.started_at) > 0)
                => pomodoro' = pomodoro
           /\ pomodoro' # pomodoro
                => /\ pomodoro.tag \in {"Work", "ShortBreak", "LongBreak"}
                   /\ get_remaining_time(pomodoro, now) = 0]_vars

\* A Tick has been processed, and ignored, in a paused session whose stored
\* remaining time is 0.
C16_Witness ==
    /\ last.what = "tick_ignored"
    /\ last.from = "Paused"
    /\ pomodoro.tag = "Paused"
    /\ pomodoro.remaining = 0

\* C18: processing a Status event leaves the timer state (variant, started_at,
\* remaining, cycles) as it was, and a reply is sent only for the Status event at
\* the head of the channel: it is the serialization of the state the events sent
\* before it have led to, and the events sent after it are still waiting.
C18_StatusIsPure ==
    [][/\ Processed("Status")
            => /\ pomodoro' = pomodoro
               /\ resp' = to_string(pomodoro)
       /\ (alive /\ alive' /\ resp = Empty /\ resp' # Empty)
            => /\ rx # <<>>
               /\ Head(rx) = "Status"
               /\ rx' = Tail(rx)
               /\ pomodoro' = pomodoro
               /\ resp' = to_string(pomodoro')]_vars

\* A status query sent behind the Tick that finished the first Work session has
\* been answered with the short break that Tick led to.
C18_Witness ==
    /\ last.what = "status"
    /\ last.from = "ShortBreak"
    /\ pomodoro = [tag |-> "ShortBreak", started_at |-> WorkDuration, cycles |-> 1]
    /\ resp = [status |-> "ShortBreak",
               state |-> [started_at |-> WorkDuration, cycles |-> 1]]

\* C19: in every state of the running daemon a ShortBreak carries cycles >= 1
\* that is no multiple of 4, a LongBreak carries cycles >= 4 that is a multiple
\* of 4, and get_cycles() is 0 for Idle.
C19_BreakMatchesCycles ==
    alive =>
        /\ pomodoro.tag = "ShortBreak"
            => pomodoro.cycles >= 1 /\ pomodoro.cycles % 4 # 0
        /\ pomodoro.tag = "LongBreak"
            => pomodoro.cycles >= 4 /\ pomodoro.cycles % 4 = 0
        /\ pomodoro.tag = "Idle" => get_cycles(pomodoro) = 0

\* The daemon is in the long break that follows the fourth Work session.
C19_Witness ==
    /\ alive
    /\ pomodoro.tag = "LongBreak"
    /\ pomodoro.cycles = 4
    /\ workFinishes = 4

\* C20: a Toggle processed on a Work session whose deadline has passed gives
\* Paused with remaining = 0 and the same cycles; a Tick processed on it while
\* paused leaves it as it is; the Toggle that resumes it gives Work with the same
\* cycles and get_remaining_time() = 0; and the Tick processed next finishes
\* that session into a break with exactly one cycle more than before the pause.
C20_ExpiredWorkSurvivesPause ==
    [][/\ (/\ Processed("Toggle")
           /\ pomodoro.tag = "Work"
           /\ now >= pomodoro.started_at + 25)
            => pomodoro' = [tag |-> "Paused", remaining |-> 0,
                            cycles |-> pomodoro.cycles]
       /\ (/\ Processed("Tick")
           /\ pomodoro.tag = "Paused"
           /\ pomodoro.remaining = 0)
            => pomodoro' = pomodoro
       /\ (/\ Processed("Toggle")
           /\ pomodoro.tag = "Paused"
           /\ pomodoro.remaining = 0)
            => /\ pomodoro'.tag = "Work"
               /\ pomodoro'.cycles = pomodoro.cycles
               /\ now - pomodoro'.started_at >= 25
               /\ get_remaining_time(pomodoro', now) = 0
       /\ (/\ Processed("Tick")
           /\ last.what = "resume"
           /\ beforePause.remaining = 0)
            => /\ pomodoro'.tag \in Breaks
               /\ pomodoro'.cycles = beforePause.cycles + 1
               /\ workFinishes' = workFinishes + 1]_vars

\* A first Work session was paused after its deadline, stayed paused while the
\* clock moved on, was resumed, and the Tick after the resume has finished it:
\* one cycle is counted.
C20_Witness ==
    /\ last.what = "work_finish"
    /\ beforePause = [remaining |-> 0, cycles |-> 0, waited |-> TRUE]
    /\ pomodoro.tag = "ShortBreak"
    /\ pomodoro.cycles = 1
    /\ workFinishes = 1

\* C12: connections are served independently of each other -- while one
\* connection has been accepted and has not sent its command, or waits for the
\* reply to its status query, a connection waiting on the listener can be
\* accepted and read -- and no step of a connection's handling changes the
\* timer state.
C12_ConnectionsServedConcurrently ==
    /\ [](( /\ alive
            /\ lpc \in {"read", "await"}
            /\ backlog > 0) => ENABLED ListenerAccept)
    /\ [][(alive /\ alive' /\ (lpc' # lpc \/ backlog' # backlog))
            => pomodoro' = pomodoro]_vars

\* The events of the channel.
Events == {"Tick", "Toggle", "Reset", "Status"}

\* C13: the channel never holds more than 32 events; a producer adds its event
\* at the tail and only when there is room, the listener otherwise staying on
\* its command; and every event in the channel is processed once, in order: an
\* event leaves the channel only from the head, taken by the event loop for the
\* arm of its kind, and the events behind it stay.
C13_BoundedFifoNoLoss ==
    [][/\ Len(rx') <= QueueCap
       /\ rx' # rx
            => \/ /\ Len(rx) < QueueCap
                  /\ \E e \in Events : rx' = Append(rx, e)
               \/ /\ rx # <<>>
                  /\ rx' = Tail(rx)
                  /\ alive' => last'.what = transition(Head(rx), pomodoro, now)
       /\ (Len(rx) = QueueCap /\ lpc = "dispatch" /\ lpc' # lpc)
            => ~(ByteLen(buf) > 0 /\ from_utf8_ok(buf)) \/ ~alive']_vars

\* C17: when the state is Work, ShortBreak or LongBreak and the clock has
\* reached started_at + duration, the next Tick the event loop takes performs
\* the finish of that state, however late it comes; so with the timer task, the
\* event loop and the clock running on and no Toggle or Reset, every Work
\* session is left for a break and every break for the next Work session.
C17_DeadlineIsLevelTriggered ==
    /\ [][( /\ Processed("Tick")
            /\ pomodoro.tag \in {"Work", "ShortBreak", "LongBreak"}
            /\ now >= pomodoro.started_at + duration(pomodoro))
            => /\ pomodoro.tag = "Work" => pomodoro' = work_finish(pomodoro, now)
               /\ pomodoro.tag \in Breaks
                    => pomodoro' = [tag |-> "Work", started_at |-> now,
                                    cycles |-> pomodoro.cycles]]_vars
    /\ ( /\ alive
         /\ pomodoro.tag = "Work"
         /\ pomodoro.started_at + WorkDuration <= MaxTime)
            ~> (alive /\ pomodoro.tag \in Breaks)
    /\ ( /\ alive
         /\ pomodoro.tag \in Breaks
         /\ pomodoro.started_at + duration(pomodoro) <= MaxTime)
            ~> (alive /\ pomodoro.tag = "Work")
====
